---- MODULE Spec2Model ----
(***************************************************************************)
(* State-machine model of the step sequencer of dotpipe/sauce (sauce.py):   *)
(* the Tk control path (sliders, check buttons, Play/Stop, Load Pattern)    *)
(* and the timing threads started by start_sequencer, each running          *)
(* run_sequence and, on a trigger, play_voice; Save Pattern; and the signal  *)
(* functions apply_eq, generate_pygame_tone and apply_adsr, each applied to  *)
(* arguments drawn from a finite set.                                        *)
(*                                                                          *)
(* Tk DoubleVar values are kept in hundredths (0.5 is 50, 440 Hz is 44000,  *)
(* a loop length of 32 is 3200), the resolution of the finest slider.       *)
(* Python lists are sequences; item(list, k) is the element list[k] of the   *)
(* code, indices of voices, rows, steps and bands being the code's (from 0). *)
(***************************************************************************)
EXTENDS Integers, Sequences, FiniteSets, TLC

VARIABLES
    running,    \* self.running
    tempo,      \* self.tempo (IntVar, BPM)
    mute_var,   \* self.mute_var, the one BooleanVar every voice["mute"] refers to
    voices,     \* self.voices: voice index -> its Tk variables' values
    sequence,   \* self.sequence: per row, the set of the indices k whose variable
                \* row[k] is set (truthy); row[0] is the row's Mute check button,
                \* row[j+1] the check button of step j
    workers,    \* the threads start_sequencer has started, in start order
    stopped,    \* the threads that were alive at some call of stop_sequencer
    seen,       \* per thread: the configurations its voice has had since the
                \* thread entered play_voice
    load_error, \* the exception the last load_pattern call ended with
    saved,      \* the document the last save_pattern call wrote to its file
    hist,       \* the grid and the voices as they were at the last save_pattern
                \* call, and whether the last load_pattern call made since then
                \* changed any of them
    fn          \* the arguments and the result of a call of one of the signal
                \* functions (apply_eq, generate_pygame_tone, apply_adsr)

vars == <<running, tempo, mute_var, voices, sequence, workers, stopped, seen, load_error,
          saved, hist, fn>>

\* the on-screen configuration: the grid and the voices
config == [sequence |-> sequence, voices |-> voices]

----------------------------------------------------------------------------
(* Program constants *)

SAMPLE_RATE == 44100
NUM_VOICES == 4
NUM_BANDS == 6
STEP_COUNT == 32

(* Bounds of the model *)

\* a thread stops advancing once its global_step reaches MaxStep
MaxStep == 2
\* start_sequencer starts at most MaxWorkers threads in a run
MaxWorkers == 2
\* the control path operates the step check buttons 0..MaxCell of a row
MaxCell == 1
\* the Loop slider is moved to 0..MaxLoop (or back to STEP_COUNT)
MaxLoop == 2
\* apply_eq is called on buffers of 2..MaxSamples samples
MaxSamples == 12

VoiceIds == 0 .. (NUM_VOICES - 1)
ParamNames == {"A", "D", "S", "R", "P1", "P2", "V", "G", "Loop"}
\* the voices whose controls the control path operates
EditVoices == {0}
EditCells == 0 .. MaxCell
LoopChoices == {100 * n : n \in 0 .. MaxLoop} \cup {100 * STEP_COUNT}
\* the positions the control path moves the slider `label` to
SliderChoices(label) ==
    IF label = "Loop" THEN LoopChoices
    ELSE IF label \in {"P1", "P2"} THEN {22000, 44000}
    ELSE {10, 50}

----------------------------------------------------------------------------
(* Construction *)

\* the value each slider variable starts with:  0.1 if label in "ADS" else 0.5,
\* then 440 for P1/P2 and STEP_COUNT for Loop
slider_default(label) ==
    IF label \in {"P1", "P2"} THEN 44000
    ELSE IF label = "Loop" THEN 100 * STEP_COUNT
    ELSE IF label \in {"A", "D", "S"} THEN 10
    ELSE 50

\* `max_val`, the `to` of the tk.Scale of slider `label` (its `from_` is 0.0)
max_val(label) ==
    IF label \in {"P1", "P2"} THEN 88000
    ELSE IF label = "Loop" THEN 100 * STEP_COUNT
    ELSE 100

\* the `to` of the tk.Scale of an EQ band, of Dist, of Left and of Right
unit_max == 1 * 100

\* var.set(v) on a variable that is the `variable` of a tk.Scale(from_=0.0,
\* to=to): the write runs the Scale's trace on the variable, which brings the
\* Scale to v and, v being outside the Scale's range, writes the nearest end
\* of the range back to the variable
scale_var_set(v, to) == IF v < 0 THEN 0 ELSE IF v > to THEN to ELSE v

\* the dict create_voice_controls appends to self.voices ("mute" is a
\* reference to self.mute_var and is read from mute_var)
create_voice_controls ==
    [ params     |-> [k \in ParamNames |-> slider_default(k)],
      eq         |-> [j \in 1 .. NUM_BANDS |-> 50],
      left_vol   |-> 50,
      right_vol  |-> 50,
      distortion |-> 0 ]

\* the rows create_sequencer builds: the Mute BooleanVar (False), then STEP_COUNT
\* IntVars (0); len(row)
create_sequencer == [i \in 1 .. NUM_VOICES |-> {}]
row_len == STEP_COUNT + 1

\* the locals of a thread entering run_sequence
NoSnap ==
    [ freq1 |-> 0, freq2 |-> 0, vol |-> 0, gain |-> 0,
      eq_values |-> [j \in 1 .. NUM_BANDS |-> 0],
      distortion |-> 0, left_vol |-> 0, right_vol |-> 0,
      attack |-> 0, decay |-> 0, sustain |-> 0, release |-> 0 ]

\* no file written yet; no signal function called
NoDoc == [sequence |-> << >>, voices |-> << >>]
NoCall == [op |-> ""]

NewWorker ==
    [ pc |-> "check", global_step |-> 0, interval |-> 0, i |-> 0,
      voice_loop |-> 0, step_index |-> 0, snap |-> NoSnap, exc |-> "" ]

\* the application once __init__ has returned, the sound check passed
Constructed ==
    /\ running = FALSE
    /\ tempo = 120
    /\ mute_var = FALSE
    /\ voices = [i \in 1 .. NUM_VOICES |-> create_voice_controls]
    /\ sequence = create_sequencer
    /\ workers = << >>
    /\ stopped = {}
    /\ seen = << >>
    /\ load_error = ""
    /\ saved = NoDoc
    /\ hist = [saved_from |-> NoDoc, load_changed |-> FALSE]

Init ==
    /\ Constructed
    /\ fn = NoCall

\* the state __init__ leaves when check_sound_system() returned False: it
\* returns before create_ui, so there are no voices, no rows and no controls
InitNoSound ==
    /\ running = FALSE
    /\ tempo = 120
    /\ mute_var = FALSE
    /\ voices = << >>
    /\ sequence = << >>
    /\ workers = << >>
    /\ stopped = {}
    /\ seen = << >>
    /\ load_error = ""
    /\ saved = NoDoc
    /\ hist = [saved_from |-> NoDoc, load_changed |-> FALSE]
    /\ fn = NoCall

----------------------------------------------------------------------------
(* Python arithmetic and indexing *)

\* list[k], k from 0
item(list, k) == list[k + 1]

\* int(x) of a float kept in hundredths: truncation toward zero
py_int(x) == IF x >= 0 THEN x \div 100 ELSE -((-x) \div 100)

\* a % b for b # 0: the result has the sign of b
py_mod(a, b) == IF b > 0 THEN a % b ELSE -((-a) % (-b))

\* row[k] of a list of length n: negative k counts from the end
py_index_ok(k, n) == (-n) <= k /\ k < n
py_index(k, n) == IF k >= 0 THEN k ELSE n + k

truthy(x) == x # 0

\* row[k].set(val) on a row kept as the set of its set variables
var_set(row, k, val) == IF truthy(val) THEN row \cup {k} ELSE row \ {k}

----------------------------------------------------------------------------
(* apply_eq.  Bin k of np.fft.rfftfreq(n, d=1/SAMPLE_RATE) is the frequency   *)
(* k * SAMPLE_RATE / n, k = 0 .. n // 2; the limits of the bands are          *)
(* np.linspace(0, max(freqs), len(eq_values) + 1).  With last_bin = n // 2,   *)
(* freqs[k] >= band_limits[i] is k * bands >= last_bin * i.                   *)

\* len(freqs) - 1, the index of the bin np.max(freqs) is at
last_bin_of(n) == n \div 2

\* `band = (freqs >= band_limits[i]) & (freqs < band_limits[i+1])` at bin k
in_band(k, i, last_bin, bands) ==
    /\ k * bands >= last_bin * i
    /\ k * bands < last_bin * (i + 1)

\* the bands i whose `samples_fft[band] *= eq_values[i]` multiplies bin k
bands_scaling(k, last_bin, bands) ==
    {i \in 0 .. (bands - 1) : in_band(k, i, last_bin, bands)}

\* apply_eq(samples, eq_values) for len(samples) = n: per bin, the bands whose
\* gain the bin has been multiplied by
apply_eq(n, eq_values) ==
    [k \in 1 .. (last_bin_of(n) + 1) |->
        bands_scaling(k - 1, last_bin_of(n), Len(eq_values))]

\* the calls of apply_eq made: buffers of 2..MaxSamples samples, 1..NUM_BANDS
\* bands of one gain
EqCalls ==
    { [op |-> "apply_eq", n |-> n, eq_values |-> [j \in 1 .. bands |-> g],
       done |-> FALSE, scaled_by |-> << >>] :
        n \in 2 .. MaxSamples, bands \in 1 .. NUM_BANDS, g \in {0, 50, 100} }

apply_eq_call ==
    /\ fn.op = "apply_eq"
    /\ ~fn.done
    /\ fn' = [fn EXCEPT !.done = TRUE, !.scaled_by = apply_eq(fn.n, fn.eq_values)]
    /\ UNCHANGED <<running, tempo, mute_var, voices, sequence, workers, stopped, seen,
                   load_error, saved, hist>>

NextEq == apply_eq_call

InitEq ==
    /\ Constructed
    /\ fn \in EqCalls

SpecEq == InitEq /\ [][NextEq]_vars

----------------------------------------------------------------------------
(* generate_pygame_tone from the distortion on, and the quantisation of       *)
(* play_voice, for one sample.  Amplitudes, gains and envelope values are in  *)
(* hundredths.                                                                *)

\* the quotient a / b (b > 0) truncated toward zero, as a cast to int does
py_trunc(a, b) == IF a >= 0 THEN a \div b ELSE -((-a) \div b)

\* 100 * tanh(j / 10) for j = 0 .. 30, to the nearest integer
tanh_table ==
    << 0, 10, 20, 29, 38, 46, 54, 60, 66, 72, 76, 80, 83, 86, 89, 91, 92, 94,
       95, 96, 96, 97, 98, 98, 98, 99, 99, 99, 99, 99, 100 >>

\* np.tanh(y): odd, increasing, of magnitude at most 1 (read off the table at
\* the argument cut to one decimal)
np_tanh(y) ==
    LET a == IF y >= 0 THEN y ELSE -y
        t == IF a \div 10 < Len(tanh_table) THEN tanh_table[(a \div 10) + 1] ELSE 100
    IN  IF y >= 0 THEN t ELSE -t

\* `if distortion_amount > 0.0: samples = np.tanh(samples * (1 + amount * 10))`
distort(x, distortion_amount) ==
    IF distortion_amount > 0
    THEN np_tanh(py_trunc(x * (100 + distortion_amount * 10), 100))
    ELSE x

\* (mutant) the clip left out
np_clip_dropped(x, lo, hi) == x

\* np.clip(x, lo, hi)
np_clip(x, lo, hi) == IF x < lo THEN lo ELSE IF x > hi THEN hi ELSE x

\* `samples * (2**15 - 1)` clipped to [-32768, 32767], in hundredths
full_scale(x) == np_clip(x * (2^15 - 1), -32768 * 100, 32767 * 100)

\* the 16-bit range
Int16 == (-(2^15)) .. (2^15 - 1)

\* the results a cast of the integral value v to int16 can give: v itself when
\* it fits; otherwise the cast is undefined, and builds give the low 16 bits
\* or the minimum
int16_casts(v) ==
    IF v \in Int16 THEN {v} ELSE {((v + 2^15) % 2^16) - 2^15, -(2^15)}

\* the calls made: a sample of the EQ'd mix (which may pass full scale), the
\* distortion amount, the left and right gains, the envelope value
ToneCalls ==
    { [op |-> "tone", x |-> x, distortion |-> d, left_vol |-> l, right_vol |-> r,
       envelope |-> env, done |-> FALSE, stereo |-> <<0, 0>>, out |-> <<0, 0>>] :
        x \in {-120, -100, -99, -1, 0, 1, 50, 100, 120},
        d \in {0, 100}, l \in {0, 50, 100}, r \in {0, 100}, env \in {0, 25, 100} }

\* generate_pygame_tone: left = np.int16(samples * left_vol), right likewise;
\* then play_voice: apply_adsr's samples * envelope and astype(np.int16)
tone_call ==
    /\ fn.op = "tone"
    /\ ~fn.done
    /\ LET samples == full_scale(distort(fn.x, fn.distortion))
       IN  \E left \in int16_casts(py_trunc(samples * fn.left_vol, 10000)),
              right \in int16_casts(py_trunc(samples * fn.right_vol, 10000)) :
             \E out_l \in int16_casts(py_trunc(left * fn.envelope, 100)),
                out_r \in int16_casts(py_trunc(right * fn.envelope, 100)) :
                fn' = [fn EXCEPT !.done = TRUE, !.stereo = <<left, right>>,
                                 !.out = <<out_l, out_r>>]
    /\ UNCHANGED <<running, tempo, mute_var, voices, sequence, workers, stopped, seen,
                   load_error, saved, hist>>

NextTone == tone_call

InitTone ==
    /\ Constructed
    /\ fn \in ToneCalls

SpecTone == InitTone /\ [][NextTone]_vars

----------------------------------------------------------------------------
(* apply_adsr: the lengths of the parts of the envelope.  Times are in        *)
(* hundredths of a second.                                                    *)

\* int(sample_rate * x)
samples_of(x, sample_rate) == py_trunc(sample_rate * x, 100)

\* max(total_samples - (attack_samples + decay_samples + release_samples), 0)
sustain_samples_of(total_samples, others) ==
    IF total_samples - others > 0 THEN total_samples - others ELSE 0

\* (mutant) the envelope used whole, whatever its length
slice_whole(len, total_samples) == len

\* len(envelope[:total_samples])
slice_len(len, total_samples) == IF len < total_samples THEN len ELSE total_samples

\* the length of the envelope after `if len(envelope) < total_samples:` pad
\* `else:` truncate
fitted_len(len, total_samples) ==
    IF len < total_samples THEN len + (total_samples - len)
    ELSE slice_len(len, total_samples)

\* len(envelope) when apply_adsr multiplies the samples by it
envelope_len(total_samples, attack, decay, release, sample_rate) ==
    LET attack_samples == samples_of(attack, sample_rate)
        decay_samples == samples_of(decay, sample_rate)
        release_samples == samples_of(release, sample_rate)
        sustain_samples == sustain_samples_of(total_samples,
                                attack_samples + decay_samples + release_samples)
    IN  fitted_len(attack_samples + decay_samples + sustain_samples + release_samples,
                   total_samples)

\* the calls made: buffers of one sample, of a tone (0.5 s) and of 3 s, the
\* times at the ends and inside the range of their sliders
AdsrCalls ==
    { [op |-> "apply_adsr", total_samples |-> n, attack |-> a, decay |-> d,
       sustain |-> su, release |-> r, done |-> FALSE, envelope_len |-> 0, exc |-> ""] :
        n \in {1, SAMPLE_RATE \div 2, 3 * SAMPLE_RATE},
        a \in {0, 1, 50, 90, 100}, d \in {0, 50, 90}, su \in {0, 100}, r \in {0, 10, 90} }

\* apply_adsr(samples, attack, decay, sustain, release, ..., SAMPLE_RATE):
\* `samples * envelope[:, np.newaxis]` raises ValueError unless the envelope
\* has one value per sample
apply_adsr_call ==
    /\ fn.op = "apply_adsr"
    /\ ~fn.done
    /\ LET len == envelope_len(fn.total_samples, fn.attack, fn.decay, fn.release,
                               SAMPLE_RATE)
       IN  fn' = [fn EXCEPT !.done = TRUE, !.envelope_len = len,
                            !.exc = IF len = fn.total_samples THEN "" ELSE "ValueError"]
    /\ UNCHANGED <<running, tempo, mute_var, voices, sequence, workers, stopped, seen,
                   load_error, saved, hist>>

NextAdsr == apply_adsr_call

InitAdsr ==
    /\ Constructed
    /\ fn \in AdsrCalls

SpecAdsr == InitAdsr /\ [][NextAdsr]_vars

----------------------------------------------------------------------------
(* The transport: start_sequencer, stop_sequencer *)

WorkerIds == 1 .. Len(workers)
PlayPcs == {"play_osc", "play_fx", "play_adsr", "play_render"}
alive(w) == workers[w].pc \notin {"done", "crashed"}

\* (mutant) the test of self.running dropped: every Play starts a thread
start_guard_dropped(r) == TRUE

\* `if not self.running`
start_guard(r) == ~r

start_sequencer ==
    /\ IF start_guard(running)
       THEN /\ Len(workers) < MaxWorkers
            /\ running' = TRUE
            /\ workers' = Append(workers, NewWorker)
            /\ seen' = Append(seen, {})
       ELSE UNCHANGED <<running, workers, seen>>
    /\ UNCHANGED <<tempo, mute_var, voices, sequence, stopped, load_error, saved, hist, fn>>

stop_sequencer ==
    /\ running' = FALSE
    /\ stopped' = stopped \cup {w \in WorkerIds : alive(w)}
    /\ UNCHANGED <<tempo, mute_var, voices, sequence, workers, seen, load_error, saved, hist, fn>>

----------------------------------------------------------------------------
(* The timing thread: run_sequence.  One action per step of thread w. *)

\* (mutant) the division by 4 forgotten: a quarter-note grid
tick_interval_quarter(t) == 60000000 \div t

\* interval = 60 / self.tempo.get() / 4, in microseconds
tick_interval(t) == (60000000 \div t) \div 4

\* (mutant) the modulus forgotten: the step index is the global step itself
step_index_unwrapped(global_step, voice_loop) == global_step

\* step_index = global_step % voice_loop
step_index_of(global_step, voice_loop) == py_mod(global_step, voice_loop)

\* `if not voice["mute"].get()`: every voice["mute"] is self.mute_var
voice_unmuted(i) == ~mute_var

\* `step_index < STEP_COUNT and self.sequence[i][step_index].get()`, the
\* rows being `rows`
cell_set_in(rows, i, step_index) ==
    /\ step_index < STEP_COUNT
    /\ py_index(step_index, row_len) \in item(rows, i)

cell_set(i, step_index) == cell_set_in(sequence, i, step_index)

\* the subscript self.sequence[i][step_index] raises IndexError
cell_raises(step_index) ==
    /\ step_index < STEP_COUNT
    /\ ~py_index_ok(step_index, row_len)

\* the thread's locals once the body of the for loop is done for voice me.i
after_voice(me) ==
    IF me.i + 1 < Len(voices)
    THEN [me EXCEPT !.pc = "voice", !.i = me.i + 1, !.snap = NoSnap]
    ELSE [me EXCEPT !.pc = "inc", !.snap = NoSnap]

\* an exception leaves run_sequence: the thread ends, self.running is untouched
raise(me, e) == [me EXCEPT !.pc = "crashed", !.exc = e, !.snap = NoSnap]

\* `while self.running:` and, inside, the read of the tempo
run_sequence_check(w) ==
    /\ workers[w].pc = "check"
    /\ workers' = [workers EXCEPT ![w] =
            IF ~running THEN [@ EXCEPT !.pc = "done"]
            ELSE IF Len(voices) = 0
            THEN [@ EXCEPT !.pc = "inc", !.interval = tick_interval(tempo)]
            ELSE [@ EXCEPT !.pc = "voice", !.i = 0, !.interval = tick_interval(tempo)]]
    /\ UNCHANGED <<running, tempo, mute_var, voices, sequence, stopped, seen, load_error, saved, hist, fn>>

\* the body of `for i, voice in enumerate(self.voices)` up to the call of play_voice
run_sequence_voice(w) ==
    LET me == workers[w]
        loop == py_int(item(voices, me.i).params["Loop"])
        idx == step_index_of(me.global_step, loop)
        at == [me EXCEPT !.voice_loop = loop, !.step_index = idx]
    IN  /\ me.pc = "voice"
        /\ IF loop = 0
           THEN /\ workers' = [workers EXCEPT
                        ![w] = raise([me EXCEPT !.voice_loop = loop], "ZeroDivisionError")]
                /\ UNCHANGED seen
           ELSE IF voice_unmuted(me.i) /\ cell_raises(idx)
           THEN /\ workers' = [workers EXCEPT ![w] = raise(at, "IndexError")]
                /\ UNCHANGED seen
           ELSE IF voice_unmuted(me.i) /\ cell_set(me.i, idx)
           THEN /\ workers' = [workers EXCEPT ![w] = [at EXCEPT !.pc = "play_osc"]]
                /\ seen' = [seen EXCEPT ![w] = {item(voices, me.i)}]
           ELSE /\ workers' = [workers EXCEPT ![w] = after_voice(at)]
                /\ UNCHANGED seen
        /\ UNCHANGED <<running, tempo, mute_var, voices, sequence, stopped, load_error, saved, hist, fn>>

\* global_step += 1
next_global_step(global_step) == global_step + 1

run_sequence_inc(w) ==
    /\ workers[w].pc = "inc"
    /\ workers[w].global_step < MaxStep
    /\ workers' = [workers EXCEPT ![w] =
            [@ EXCEPT !.pc = "sleep", !.global_step = next_global_step(@)]]
    /\ UNCHANGED <<running, tempo, mute_var, voices, sequence, stopped, seen, load_error, saved, hist, fn>>

\* time.sleep(interval) returns
run_sequence_sleep(w) ==
    /\ workers[w].pc = "sleep"
    /\ workers' = [workers EXCEPT ![w] = [@ EXCEPT !.pc = "check"]]
    /\ UNCHANGED <<running, tempo, mute_var, voices, sequence, stopped, seen, load_error, saved, hist, fn>>

----------------------------------------------------------------------------
(* play_voice, called by the timing thread: the reads of the voice's Tk      *)
(* variables in the order of the code, then the render.                      *)

\* freq1, freq2, vol, gain
play_voice_osc(w) ==
    LET me == workers[w]
        p == item(voices, me.i).params
    IN  /\ me.pc = "play_osc"
        /\ workers' = [workers EXCEPT ![w] =
                [me EXCEPT !.pc = "play_fx",
                           !.snap = [me.snap EXCEPT !.freq1 = p["P1"], !.freq2 = p["P2"],
                                                    !.vol = p["V"], !.gain = p["G"]]]]
        /\ UNCHANGED <<running, tempo, mute_var, voices, sequence, stopped, seen, load_error, saved, hist, fn>>

\* eq_values, distortion, left_vol, right_vol
play_voice_fx(w) ==
    LET me == workers[w]
        voice == item(voices, me.i)
    IN  /\ me.pc = "play_fx"
        /\ workers' = [workers EXCEPT ![w] =
                [me EXCEPT !.pc = "play_adsr",
                           !.snap = [me.snap EXCEPT !.eq_values = voice.eq,
                                                    !.distortion = voice.distortion,
                                                    !.left_vol = voice.left_vol,
                                                    !.right_vol = voice.right_vol]]]
        /\ UNCHANGED <<running, tempo, mute_var, voices, sequence, stopped, seen, load_error, saved, hist, fn>>

\* attack, decay, sustain, release
play_voice_adsr(w) ==
    LET me == workers[w]
        p == item(voices, me.i).params
    IN  /\ me.pc = "play_adsr"
        /\ workers' = [workers EXCEPT ![w] =
                [me EXCEPT !.pc = "play_render",
                           !.snap = [me.snap EXCEPT !.attack = p["A"], !.decay = p["D"],
                                                    !.sustain = p["S"], !.release = p["R"]]]]
        /\ UNCHANGED <<running, tempo, mute_var, voices, sequence, stopped, seen, load_error, saved, hist, fn>>

\* apply_adsr: np.linspace(.., int(sample_rate * x)) raises ValueError for a
\* negative number of samples (x = attack, decay, release)
render_raises(snap) == snap.attack < 0 \/ snap.decay < 0 \/ snap.release < 0

\* what the mixer does with a buffer handed to make_sound and play(): it
\* plays it, or raises pygame.error (the outcome check_sound_system tests for)
MixerOutcomes == {"", "pygame.error"}

\* generate_pygame_tone, apply_adsr, make_sound, tone.play()
play_voice_render(w) ==
    LET me == workers[w]
    IN  /\ me.pc = "play_render"
        /\ \E e \in MixerOutcomes :
            workers' = [workers EXCEPT ![w] =
                IF render_raises(me.snap) THEN raise(me, "ValueError")
                ELSE IF e # "" THEN raise(me, e)
                ELSE after_voice(me)]
        /\ seen' = [seen EXCEPT ![w] = {}]
        /\ UNCHANGED <<running, tempo, mute_var, voices, sequence, stopped, load_error, saved, hist, fn>>

----------------------------------------------------------------------------
(* The control path: check buttons and sliders *)

\* what the threads inside play_voice see of their voice after a mutation
observe(vs) ==
    [w \in WorkerIds |->
        IF workers[w].pc \in PlayPcs THEN seen[w] \cup {item(vs, workers[w].i)} ELSE seen[w]]

\* the positions the control path moves the Tempo slider (from_=60, to=240) to
TempoChoices == {60, 70, 120, 240}

\* the Tempo slider
set_tempo(val) ==
    /\ tempo' = val
    /\ UNCHANGED <<running, mute_var, voices, sequence, workers, stopped, seen, load_error,
                   saved, hist, fn>>

\* the check button of step j of row i (grid column j+1, row[j+1])
set_step(i, j, val) ==
    /\ sequence' = [sequence EXCEPT ![i + 1] = var_set(@, j + 1, val)]
    /\ UNCHANGED <<running, tempo, mute_var, voices, workers, stopped, seen, load_error, saved, hist, fn>>

\* the Mute check button of row i (grid column 0, row[0])
set_mute(i, val) ==
    /\ sequence' = [sequence EXCEPT ![i + 1] = var_set(@, 0, val)]
    /\ UNCHANGED <<running, tempo, mute_var, voices, workers, stopped, seen, load_error, saved, hist, fn>>

\* the slider of parameter `label` of voice i
set_parameter(i, label, val) ==
    /\ voices' = [voices EXCEPT ![i + 1].params[label] = val]
    /\ seen' = observe(voices')
    /\ UNCHANGED <<running, tempo, mute_var, sequence, workers, stopped, load_error, saved, hist, fn>>

\* the distortion slider of voice i
set_distortion(i, val) ==
    /\ voices' = [voices EXCEPT ![i + 1].distortion = val]
    /\ seen' = observe(voices')
    /\ UNCHANGED <<running, tempo, mute_var, sequence, workers, stopped, load_error, saved, hist, fn>>

----------------------------------------------------------------------------
(* load_pattern.  A pattern document is the dict json.load returns: a        *)
(* record holding the keys the file has.                                     *)

\* `for j, val in enumerate(row): if ... j < len(self.sequence[i]): .set(val)`
load_row(row, doc_row) ==
    LET m == IF Len(doc_row) < row_len THEN Len(doc_row) ELSE row_len
    IN  (row \ (0 .. (m - 1))) \cup {j \in 0 .. (m - 1) : truthy(item(doc_row, j))}

\* `for i, row in enumerate(data["sequence"]): if i < len(self.sequence) ...`
load_sequence(rows) ==
    [i \in 1 .. NUM_VOICES |->
        IF i <= Len(rows) THEN load_row(sequence[i], rows[i]) ELSE sequence[i]]

\* `for k, v in voice_data["params"].items(): if k in ...["params"]: .set(v)`
load_params(params, doc_params) ==
    [k \in ParamNames |->
        IF k \in DOMAIN doc_params THEN scale_var_set(doc_params[k], max_val(k))
        ELSE params[k]]

\* `for j, eqv in enumerate(voice_data["eq"]): if j < len(...["eq"]): .set(eqv)`
load_eq(eq, doc_eq) ==
    [j \in 1 .. NUM_BANDS |->
        IF j <= Len(doc_eq) THEN scale_var_set(doc_eq[j], unit_max) ELSE eq[j]]

\* the body of the loop over data["voices"] for one voice: the voice's values
\* when the body ends, and the KeyError that ended it, if any
load_voice(voice, voice_data) ==
    IF "params" \notin DOMAIN voice_data
    THEN [voice |-> voice, error |-> "KeyError"]
    ELSE LET v1 == [voice EXCEPT !.params = load_params(@, voice_data.params)]
    IN  IF "eq" \notin DOMAIN voice_data
        THEN [voice |-> v1, error |-> "KeyError"]
        ELSE LET v2 == [v1 EXCEPT !.eq = load_eq(@, voice_data.eq)]
        IN  IF "left_vol" \notin DOMAIN voice_data
            THEN [voice |-> v2, error |-> "KeyError"]
            ELSE LET v3 == [v2 EXCEPT !.left_vol =
                                    scale_var_set(voice_data.left_vol, unit_max)]
            IN  IF "right_vol" \notin DOMAIN voice_data
                THEN [voice |-> v3, error |-> "KeyError"]
                ELSE LET v4 == [v3 EXCEPT !.right_vol =
                                        scale_var_set(voice_data.right_vol, unit_max)]
                IN  IF "distortion" \notin DOMAIN voice_data
                    THEN [voice |-> v4, error |-> "KeyError"]
                    ELSE [voice |-> [v4 EXCEPT !.distortion =
                                        scale_var_set(voice_data.distortion, unit_max)],
                          error |-> ""]

\* `for i, voice_data in enumerate(data["voices"])` from entry n on (n from 1):
\* an exception ends the loop, entries past len(self.voices) are skipped
RECURSIVE load_voices(_, _, _)
load_voices(vs, doc_voices, n) ==
    IF n > Len(doc_voices) THEN [voices |-> vs, error |-> ""]
    ELSE IF n > Len(vs) THEN load_voices(vs, doc_voices, n + 1)
    ELSE LET r == load_voice(vs[n], doc_voices[n])
             vs1 == [vs EXCEPT ![n] = r.voice]
         IN  IF r.error # "" THEN [voices |-> vs1, error |-> r.error]
             ELSE load_voices(vs1, doc_voices, n + 1)

\* load_pattern with the chosen file holding `data`
load_pattern(data) ==
    /\ IF "sequence" \notin DOMAIN data
       THEN /\ load_error' = "KeyError"
            /\ UNCHANGED <<sequence, voices>>
       ELSE /\ sequence' = load_sequence(data.sequence)
            /\ IF "voices" \notin DOMAIN data
               THEN /\ load_error' = "KeyError"
                    /\ UNCHANGED voices
               ELSE LET r == load_voices(voices, data.voices, 1)
                    IN  /\ voices' = r.voices
                        /\ load_error' = r.error
    /\ seen' = observe(voices')
    /\ hist' = [hist EXCEPT !.load_changed = (config' # config)]
    /\ UNCHANGED <<running, tempo, mute_var, workers, stopped, saved, fn>>

\* (mutant) the row written without its Mute button: the steps only
save_row_steps_only(row) == [k \in 1 .. STEP_COUNT |-> IF k \in row THEN 1 ELSE 0]

\* `[var.get() for var in row]`: the Mute button first, then the steps
save_row(row) == [k \in 1 .. row_len |-> IF (k - 1) \in row THEN 1 ELSE 0]

\* voice_data of one voice
save_voice(voice) ==
    [ params     |-> voice.params,
      eq         |-> voice.eq,
      left_vol   |-> voice.left_vol,
      right_vol  |-> voice.right_vol,
      distortion |-> voice.distortion ]

\* save_pattern with a file chosen: json.dump(data, f)
save_pattern ==
    /\ saved' = [ sequence |-> [i \in 1 .. Len(sequence) |-> save_row(sequence[i])],
                  voices   |-> [i \in 1 .. Len(voices) |-> save_voice(voices[i])] ]
    /\ hist' = [saved_from |-> config, load_changed |-> FALSE]
    /\ UNCHANGED <<running, tempo, mute_var, voices, sequence, workers, stopped, seen,
                   load_error, fn>>

\* step j of the spec's step grid of voice i: the check button create_sequencer
\* puts at grid column j+1, stored at row[j+1]
grid_cell(i, j) == (j + 1) \in item(sequence, i)

\* the mute control of voice i: the Mute check button of its row, row[0]
mute_flag(i) == 0 \in item(sequence, i)

\* the loop length of voice i as run_sequence reads it
loop_length(i) == py_int(item(voices, i).params["Loop"])

----------------------------------------------------------------------------
(* The earlier revision, main.py.  start_sequencer, stop_sequencer and the    *)
(* loop of run_sequence are those of sauce.py; the definitions below are the  *)
(* parts that differ, named main_ after the file.                             *)

\* STEP_COUNT of main.py
MAIN_STEP_COUNT == 16

MainParamNames == {"A", "D", "S", "R", "P", "V", "G", "Loop"}

\* 0.1 if label in "ADS" else 0.5, then 440 for P, 0.5 for V and G,
\* STEP_COUNT for Loop
main_slider_default(label) ==
    IF label = "P" THEN 44000
    ELSE IF label = "Loop" THEN 100 * MAIN_STEP_COUNT
    ELSE IF label \in {"A", "D", "S"} THEN 10
    ELSE 50

\* the dicts one call of create_voice_controls appends to self.voices: one
\* after the EQ sliders, one more after the Left and Right sliders (both
\* refer to the same `sliders` and `eq`)
main_create_voice_controls ==
    LET sliders == [k \in MainParamNames |-> main_slider_default(k)]
        eq == [j \in 1 .. NUM_BANDS |-> 50]
    IN  << [params |-> sliders, eq |-> eq],
           [params |-> sliders, eq |-> eq, left_vol |-> 50, right_vol |-> 50] >>

\* self.voices after the NUM_VOICES calls of create_voice_controls made by
\* create_ui
main_voices ==
    [n \in 1 .. (NUM_VOICES * Len(main_create_voice_controls)) |->
        main_create_voice_controls[((n - 1) % Len(main_create_voice_controls)) + 1]]

\* the rows create_sequencer builds: STEP_COUNT IntVars (0) each, no Mute
\* button; row[j] is the check button of step j
main_create_sequencer == [i \in 1 .. NUM_VOICES |-> {}]

\* main.py once __init__ has returned, the sound check passed
InitMain ==
    /\ running = FALSE
    /\ tempo = 120
    /\ mute_var = FALSE
    /\ voices = main_voices
    /\ sequence = main_create_sequencer
    /\ workers = << >>
    /\ stopped = {}
    /\ seen = << >>
    /\ load_error = ""
    /\ saved = NoDoc
    /\ hist = [saved_from |-> NoDoc, load_changed |-> FALSE]
    /\ fn = NoCall

\* the check button of step j of row i (grid column j, row[j])
main_set_step(i, j, val) ==
    /\ sequence' = [sequence EXCEPT ![i + 1] = var_set(@, j, val)]
    /\ UNCHANGED <<running, tempo, mute_var, voices, workers, stopped, seen, load_error,
                   saved, hist, fn>>

\* the slider `label` of voice panel i: its variable is in the `sliders` of
\* both dicts the panel's create_voice_controls call appended
main_set_parameter(i, label, val) ==
    /\ voices' = [n \in 1 .. Len(voices) |->
                    IF (n - 1) \div Len(main_create_voice_controls) = i
                    THEN [voices[n] EXCEPT !.params[label] = val]
                    ELSE voices[n]]
    /\ UNCHANGED <<running, tempo, mute_var, sequence, workers, stopped, seen, load_error,
                   saved, hist, fn>>

\* the subscripts of self.sequence[i][step_index] raise IndexError: no row i,
\* or no entry step_index in it
main_cell_raises(i, step_index) ==
    \/ ~py_index_ok(i, Len(sequence))
    \/ ~py_index_ok(step_index, MAIN_STEP_COUNT)

\* the body of `for i, voice in enumerate(self.voices)` up to the call of
\* play_voice: `if step_index < STEP_COUNT and self.sequence[i][step_index].get()`
main_run_sequence_voice(w) ==
    LET me == workers[w]
        loop == py_int(item(voices, me.i).params["Loop"])
        idx == step_index_of(me.global_step, loop)
        at == [me EXCEPT !.voice_loop = loop, !.step_index = idx]
    IN  /\ me.pc = "voice"
        /\ workers' = [workers EXCEPT ![w] =
                IF loop = 0
                THEN raise([me EXCEPT !.voice_loop = loop], "ZeroDivisionError")
                ELSE IF idx < MAIN_STEP_COUNT /\ main_cell_raises(me.i, idx)
                THEN raise(at, "IndexError")
                ELSE IF /\ idx < MAIN_STEP_COUNT
                        /\ py_index(idx, MAIN_STEP_COUNT) \in item(sequence, me.i)
                THEN [at EXCEPT !.pc = "play_osc"]
                ELSE after_voice(at)]
        /\ UNCHANGED <<running, tempo, mute_var, voices, sequence, stopped, seen, load_error,
                       saved, hist, fn>>

\* play_voice: the reads of P, V and G, then the call
\* generate_pygame_tone(freq, duration_ms, left_volume, stereo=True) of a
\* function that has no parameter `stereo`: TypeError
main_play_voice(w) ==
    /\ workers[w].pc = "play_osc"
    /\ workers' = [workers EXCEPT ![w] = raise(@, "TypeError")]
    /\ UNCHANGED <<running, tempo, mute_var, voices, sequence, stopped, seen, load_error,
                   saved, hist, fn>>

\* main.py: Play and Stop, the grid of row 0, the Loop slider of panel 0, the
\* clock (no thread gets past the voices of its first tick)
NextMain ==
    \/ start_sequencer
    \/ stop_sequencer
    \/ \E i \in EditVoices, j \in EditCells, val \in {0, 1} : main_set_step(i, j, val)
    \/ \E i \in EditVoices, n \in LoopChoices \ {100 * STEP_COUNT} :
            main_set_parameter(i, "Loop", n)
    \/ \E w \in WorkerIds : run_sequence_check(w)
    \/ \E w \in WorkerIds : main_run_sequence_voice(w)
    \/ \E w \in WorkerIds : main_play_voice(w)

SpecMain == InitMain /\ [][NextMain]_vars

----------------------------------------------------------------------------
(* Specifications *)

\* the step sequencer: Play, the grid, the Mute buttons, the Loop sliders and
\* the clock
NextSeq ==
    \/ start_sequencer
    \/ \E i \in EditVoices, j \in EditCells, val \in {0, 1} : set_step(i, j, val)
    \/ \E i \in EditVoices, val \in {0, 1} : set_mute(i, val)
    \/ \E i \in EditVoices, n \in LoopChoices : set_parameter(i, "Loop", n)
    \/ \E w \in WorkerIds : run_sequence_check(w)
    \/ \E w \in WorkerIds : run_sequence_voice(w)
    \/ \E w \in WorkerIds : run_sequence_inc(w)
    \/ \E w \in WorkerIds : run_sequence_sleep(w)
    \/ \E w \in WorkerIds : play_voice_osc(w)
    \/ \E w \in WorkerIds : play_voice_fx(w)
    \/ \E w \in WorkerIds : play_voice_adsr(w)
    \/ \E w \in WorkerIds : play_voice_render(w)

SpecSeq == Init /\ [][NextSeq]_vars

\* the transport: Play and Stop in any order, a step of the grid, the clock
NextTransport ==
    \/ start_sequencer
    \/ stop_sequencer
    \/ \E i \in EditVoices, j \in EditCells, val \in {0, 1} : set_step(i, j, val)
    \/ \E w \in WorkerIds : run_sequence_check(w)
    \/ \E w \in WorkerIds : run_sequence_voice(w)
    \/ \E w \in WorkerIds : run_sequence_inc(w)
    \/ \E w \in WorkerIds : run_sequence_sleep(w)
    \/ \E w \in WorkerIds : play_voice_osc(w)
    \/ \E w \in WorkerIds : play_voice_fx(w)
    \/ \E w \in WorkerIds : play_voice_adsr(w)
    \/ \E w \in WorkerIds : play_voice_render(w)

SpecTransport == Init /\ [][NextTransport]_vars

\* Play and Stop in any order over an empty grid: the threads tick, no voice
\* is triggered
NextStartStop ==
    \/ start_sequencer
    \/ stop_sequencer
    \/ \E w \in WorkerIds : run_sequence_check(w)
    \/ \E w \in WorkerIds : run_sequence_voice(w)
    \/ \E w \in WorkerIds : run_sequence_inc(w)
    \/ \E w \in WorkerIds : run_sequence_sleep(w)

SpecStartStop == Init /\ [][NextStartStop]_vars

\* the Tempo slider against the clock, over an empty grid
NextTempo ==
    \/ start_sequencer
    \/ \E val \in TempoChoices : set_tempo(val)
    \/ \E w \in WorkerIds : run_sequence_check(w)
    \/ \E w \in WorkerIds : run_sequence_voice(w)
    \/ \E w \in WorkerIds : run_sequence_inc(w)
    \/ \E w \in WorkerIds : run_sequence_sleep(w)

SpecTempo == Init /\ [][NextTempo]_vars

\* start_sequencer and stop_sequencer called on the object whose construction
\* ended at the failed sound check; the threads iterate over no voices
NextNoSound ==
    \/ start_sequencer
    \/ stop_sequencer
    \/ \E w \in WorkerIds : run_sequence_check(w)
    \/ \E w \in WorkerIds : run_sequence_inc(w)
    \/ \E w \in WorkerIds : run_sequence_sleep(w)

SpecNoSound == InitNoSound /\ [][NextNoSound]_vars

\* a document whose voice 0 has a negative attack time (and nothing else); the
\* Scale of A keeps the variable at 0
NegativeAttackDoc ==
    [ sequence |-> << >>,
      voices |-> << [ params |-> [A |-> -10], eq |-> << >>,
                      left_vol |-> 50, right_vol |-> 50, distortion |-> 0 ] >> ]

\* rendering against the control path: Play, step 0 of voice 0, two sliders of
\* voice 0 read in different parts of play_voice, a pattern load, the clock
NextRender ==
    \/ start_sequencer
    \/ \E val \in {0, 1} : set_step(0, 0, val)
    \/ \E k \in {"P1", "A"} : \E val \in SliderChoices(k) : set_parameter(0, k, val)
    \/ load_pattern(NegativeAttackDoc)
    \/ \E w \in WorkerIds : run_sequence_check(w)
    \/ \E w \in WorkerIds : run_sequence_voice(w)
    \/ \E w \in WorkerIds : run_sequence_inc(w)
    \/ \E w \in WorkerIds : run_sequence_sleep(w)
    \/ \E w \in WorkerIds : play_voice_osc(w)
    \/ \E w \in WorkerIds : play_voice_fx(w)
    \/ \E w \in WorkerIds : play_voice_adsr(w)
    \/ \E w \in WorkerIds : play_voice_render(w)

SpecRender == Init /\ [][NextRender]_vars

\* the record `rec` without the key `key`
without(rec, key) == [k \in (DOMAIN rec) \ {key} |-> rec[k]]

\* a complete document for voices 0 and 1: rows of three and one entries, voice
\* 0 with two of its parameters and an unknown key, voice 1 with all parameters
CompleteDoc ==
    [ sequence |-> << <<1, 0, 1>>, <<0>> >>,
      voices |-> << [ params |-> [P1 |-> 22000, Loop |-> 400, X |-> 1],
                      eq |-> <<100, 0>>,
                      left_vol |-> 100, right_vol |-> 0, distortion |-> 50 ],
                    [ params |-> [k \in ParamNames |-> 20],
                      eq |-> <<20, 20, 20, 20, 20, 20>>,
                      left_vol |-> 20, right_vol |-> 20, distortion |-> 20 ] >> ]

VoiceKeys == {"params", "eq", "left_vol", "right_vol", "distortion"}

\* a document whose voice 0 has every kind of value outside its range, above
\* or below
OutOfRangeDoc ==
    [ sequence |-> << >>,
      voices |-> << [ params |-> [P1 |-> 99900, P2 |-> -100, V |-> 150, S |-> -10,
                                  Loop |-> 0],
                      eq |-> <<150, -50>>,
                      left_vol |-> 200, right_vol |-> -50, distortion |-> 150 ] >> ]

\* the documents loaded: the complete one, it with one key missing, at the top
\* level or in the entry of voice 0, and the one with values out of range
LoadDocs ==
    {CompleteDoc, OutOfRangeDoc}
        \cup {without(CompleteDoc, key) : key \in {"sequence", "voices"}}
        \cup {[CompleteDoc EXCEPT !.voices[1] = without(@, key)] : key \in VoiceKeys}

\* pattern loads against the control path, the clock not running
NextLoad ==
    \/ \E data \in LoadDocs : load_pattern(data)
    \/ \E i \in EditVoices, j \in EditCells, val \in {0, 1} : set_step(i, j, val)
    \/ \E i \in EditVoices, val \in {0, 1} : set_mute(i, val)
    \/ \E k \in {"P1", "Loop"} : \E val \in SliderChoices(k) : set_parameter(0, k, val)
    \/ \E val \in {0, 50} : set_distortion(0, val)

SpecLoad == Init /\ [][NextLoad]_vars

\* Save Pattern and Load Pattern of the saved file, against the check buttons,
\* two controls of voice 0 and the load of another file
NextSave ==
    \/ save_pattern
    \/ saved # NoDoc /\ load_pattern(saved)
    \/ load_pattern(CompleteDoc)
    \/ \E i \in EditVoices, j \in EditCells, val \in {0, 1} : set_step(i, j, val)
    \/ \E i \in EditVoices, val \in {0, 1} : set_mute(i, val)
    \/ \E val \in SliderChoices("P1") : set_parameter(0, "P1", val)
    \/ \E val \in {0, 50} : set_distortion(0, val)

SpecSave == Init /\ [][NextSave]_vars

----------------------------------------------------------------------------
(* Claims about the clock *)

\* thread w takes its step of evaluating voice workers[w].i
voice_step(w) == workers[w].pc = "voice" /\ workers'[w] # workers[w]
\* ... and calls play_voice for it
triggered(w) == workers'[w].pc = "play_osc"

\* C1: for every unmuted voice and every tick with global step g, the clock
\* triggers the voice iff step_index = g mod loop_length is below STEP_COUNT
\* and step-grid cell number step_index of the voice's own row is set.
C1_TriggerIffCellSet ==
    [][\A w \in WorkerIds :
        LET v == workers[w].i
            si == workers[w].global_step % loop_length(v)
        IN  (/\ voice_step(w)
             /\ loop_length(v) \in 1 .. STEP_COUNT
             /\ ~mute_var
             /\ ~mute_flag(v))
            => (triggered(w) <=> (si < STEP_COUNT /\ grid_cell(v, si)))]_vars

\* C2: while a voice's mute flag is set, the clock issues no trigger for it.
C2_MutedNeverTriggers ==
    [][\A w \in WorkerIds :
        (voice_step(w) /\ mute_flag(workers[w].i)) => ~triggered(w)]_vars

\* C3: every tick advances the thread's global step by exactly one, muted
\* voices or not, nothing else moves it, and a voice is evaluated at
\* step_index = global_step mod loop_length whatever its mute history.
C3_StepAdvancesPhaseKept ==
    [][\A w \in WorkerIds :
        LET me == workers[w]
            after == workers'[w]
        IN  /\ (me.pc = "inc" /\ after # me) => after.global_step = me.global_step + 1
            /\ me.pc # "inc" => after.global_step = me.global_step
            /\ (voice_step(w) /\ loop_length(me.i) > 0)
                => after.step_index = me.global_step % loop_length(me.i)]_vars

\* a thread that has advanced past the loop length of voice 0 while the Mute
\* button of voice 0 is set, and has just evaluated voice 0 in phase
C3_Witness ==
    \E w \in WorkerIds :
        /\ workers[w].pc = "voice"
        /\ workers[w].i = 1
        /\ mute_flag(0)
        /\ workers[w].voice_loop \in 1 .. STEP_COUNT
        /\ workers[w].global_step >= workers[w].voice_loop
        /\ workers[w].step_index = workers[w].global_step % workers[w].voice_loop

\* C7: in every reachable state each voice's loop length is an integer in
\* [1, STEP_COUNT], so that step_index = global_step mod loop_length is
\* defined on every tick.
C7_LoopLengthInRange ==
    /\ \A i \in VoiceIds :
        /\ item(voices, i).params["Loop"] % 100 = 0
        /\ loop_length(i) \in 1 .. STEP_COUNT
    /\ \A w \in WorkerIds : workers[w].exc # "ZeroDivisionError"

----------------------------------------------------------------------------
(* Claims about the transport *)

\* C4: start is idempotent: a thread is started only by a start made while
\* the running flag is clear, which sets the flag and starts exactly one
\* thread (with a fresh step counter); while the flag is set, start changes
\* neither the flag, nor the threads, nor any step counter.
C4_StartIdempotent ==
    [][/\ Len(workers') # Len(workers)
            => /\ ~running
               /\ running'
               /\ workers' = Append(workers, NewWorker)
       /\ (~running /\ running') => Len(workers') = Len(workers) + 1
       /\ (running /\ running') => Len(workers') = Len(workers)]_vars

\* Play, Stop, Play: the second thread was started by the one start that found
\* the flag clear, and the flag is set again
C4_Witness ==
    /\ running
    /\ Len(workers) = 2
    /\ workers[1].global_step >= 1

\* C5: after stop, a thread that was running at that moment finishes at most
\* its current tick and exits: it never begins another tick.
C5_StoppedThreadExits ==
    [][\A w \in stopped :
        ~(workers[w].pc = "check" /\ workers'[w].pc = "voice")]_vars

\* C9: at any time at most one render of a given voice is in progress.
C9_SingleFlight ==
    \A v \in VoiceIds :
        Cardinality({w \in WorkerIds : workers[w].pc \in PlayPcs /\ workers[w].i = v}) <= 1

----------------------------------------------------------------------------
(* Claims about rendering and loading *)

\* what a render consumes of a voice's configuration
snap_of(voice) ==
    [ freq1 |-> voice.params["P1"], freq2 |-> voice.params["P2"],
      vol |-> voice.params["V"], gain |-> voice.params["G"],
      eq_values |-> voice.eq, distortion |-> voice.distortion,
      left_vol |-> voice.left_vol, right_vol |-> voice.right_vol,
      attack |-> voice.params["A"], decay |-> voice.params["D"],
      sustain |-> voice.params["S"], release |-> voice.params["R"] ]

\* C6: an error raised in the render of one trigger does not stop the clock:
\* whatever the render ends with, the thread goes on to the remaining voices
\* of the tick and to its increment.
C6_RenderFailureIsolated ==
    [][\A w \in WorkerIds :
        (workers[w].pc = "play_render" /\ workers'[w] # workers[w])
            => workers'[w].pc \in {"voice", "inc"}]_vars

\* C8: the values one render consumes are those of one single state the voice's
\* configuration has had since the trigger.
C8_RenderUsesOneSnapshot ==
    \A w \in WorkerIds :
        workers[w].pc = "play_render"
            => \E voice \in seen[w] : workers[w].snap = snap_of(voice)

\* the load C10 asks for, field by field: a key the document has is applied, a
\* key it lacks leaves the values as they are
degrade_sequence(data) ==
    IF "sequence" \in DOMAIN data THEN load_sequence(data.sequence) ELSE sequence

degrade_voice(voice, voice_data) ==
    [ params |-> IF "params" \in DOMAIN voice_data
                 THEN load_params(voice.params, voice_data.params) ELSE voice.params,
      eq |-> IF "eq" \in DOMAIN voice_data
             THEN load_eq(voice.eq, voice_data.eq) ELSE voice.eq,
      left_vol |-> IF "left_vol" \in DOMAIN voice_data
                   THEN scale_var_set(voice_data.left_vol, unit_max) ELSE voice.left_vol,
      right_vol |-> IF "right_vol" \in DOMAIN voice_data
                    THEN scale_var_set(voice_data.right_vol, unit_max) ELSE voice.right_vol,
      distortion |-> IF "distortion" \in DOMAIN voice_data
                     THEN scale_var_set(voice_data.distortion, unit_max)
                     ELSE voice.distortion ]

degrade_voices(data) ==
    IF "voices" \in DOMAIN data
    THEN [i \in 1 .. NUM_VOICES |->
            IF i <= Len(data.voices) THEN degrade_voice(voices[i], data.voices[i])
            ELSE voices[i]]
    ELSE voices

\* C10: a load of a document lacking a required field never fails as a whole:
\* every field present is applied, every missing one keeps its value.
C10_LoadDegradesFieldByField ==
    [][\A data \in LoadDocs :
        load_pattern(data)
            => /\ load_error' = ""
               /\ sequence' = degrade_sequence(data)
               /\ voices' = degrade_voices(data)]_vars

\* the ranges C11 names: frequencies 0-880, volume, gain, sustain, EQ,
\* distortion, left and right 0-1, loop length 1..STEP_COUNT
within_ranges(voice) ==
    /\ \A k \in {"P1", "P2"} : voice.params[k] \in 0 .. 88000
    /\ \A k \in {"V", "G", "S"} : voice.params[k] \in 0 .. 100
    /\ voice.params["Loop"] \in 100 .. (100 * STEP_COUNT)
    /\ \A j \in 1 .. NUM_BANDS : voice.eq[j] \in 0 .. 100
    /\ voice.distortion \in 0 .. 100
    /\ voice.left_vol \in 0 .. 100
    /\ voice.right_vol \in 0 .. 100

\* C11: a value outside its range, coming from a pattern load or a direct
\* set, is clamped to the nearest bound: after the operation every stored
\* value of the voice lies inside its parameter's range.
C11_OutOfRangeClamped ==
    [][\A i \in VoiceIds :
        item(voices', i) # item(voices, i) => within_ranges(item(voices', i))]_vars

\* C12: after a save in state S, any mutations and a load of the saved
\* document, every step-grid cell, every mute flag and every field of every
\* voice (frequencies, volume, gain, ADSR, EQ, distortion, left/right, loop
\* length) has its value of S again.
C12_SaveLoadRoundTrip ==
    [][(saved # NoDoc /\ load_pattern(saved))
        => /\ load_error' = ""
           /\ \A i \in VoiceIds :
                /\ item(sequence', i) = item(hist.saved_from.sequence, i)
                /\ item(voices', i) = item(hist.saved_from.voices, i)]_vars

\* the file was saved while voice 1 had its initial values, the configuration
\* was changed, and the last load, which changed it again and left voice 1
\* with its initial values (so the load of the saved file: the other file
\* sets voice 1, of which no control is operated), has brought back the saved
\* configuration
C12_Witness ==
    /\ saved # NoDoc
    /\ hist.load_changed
    /\ item(voices, 1) = create_voice_controls
    /\ config = hist.saved_from
    /\ mute_flag(0)
    /\ grid_cell(0, 0)

\* C13: when the sound check at startup has failed, the running flag is never
\* set and no timing thread is ever started, start being called or not.
C13_NoStartWithoutSound == ~running /\ workers = << >>

\* the engine's step counter: the global_step of the thread started last
global_step_counter ==
    IF workers = << >> THEN 0 ELSE workers[Len(workers)].global_step

\* C14: over the whole life of the engine, through any starts, stops and
\* ticks, the global step counter never decreases; a stop followed by a start
\* does not move it backwards.
C14_GlobalStepMonotonic ==
    [][global_step_counter' >= global_step_counter]_vars

\* `interval` microseconds is 60/t/4 seconds, to the microsecond
is_sixteenth(interval, t) ==
    /\ interval * 4 * t <= 60000000
    /\ 60000000 < (interval + 1) * 4 * t

\* C15: the tempo is read live on each tick: the wait of a tick is 60/tempo/4
\* seconds for the tempo read in that tick, for every integer tempo in
\* [60, 240]; a tempo change alters no wait already computed, and reaches the
\* following tick.
C15_TempoReadLive ==
    [][/\ \A t \in 60 .. 240 : is_sixteenth(tick_interval(t), t)
       /\ \A w \in WorkerIds :
            LET me == workers[w]
                after == workers'[w]
            IN  /\ (me.pc = "check" /\ after.pc \in {"voice", "inc"})
                    => is_sixteenth(after.interval, tempo)
                /\ me.pc # "check" => after.interval = me.interval
       /\ tempo' # tempo => workers' = workers]_vars

\* a thread in its second tick waits by the tempo 60 it read in this tick (not
\* by the initial 120), the slider having since been moved to 240
C15_Witness ==
    \E w \in WorkerIds :
        /\ workers[w].pc = "sleep"
        /\ workers[w].global_step = 2
        /\ workers[w].interval = 250000
        /\ tempo = 240

----------------------------------------------------------------------------
(* Claims about the signal functions *)

\* C16: the bands of the EQ partition the bins 0 .. max completely: every bin
\* is scaled by exactly one band, and the bin at the maximum frequency by the
\* last band.
C16_EqBandsPartition ==
    (fn.op = "apply_eq" /\ fn.done)
        => /\ \A k \in 0 .. last_bin_of(fn.n) : Cardinality(item(fn.scaled_by, k)) = 1
           /\ item(fn.scaled_by, last_bin_of(fn.n)) = {Len(fn.eq_values) - 1}

\* the sample at full scale, held to the 16-bit range, times the gain
\* (hundredths), as an integer: the value C17 calls mathematically scaled
scaled(x, distortion_amount, vol) ==
    LET y == distort(x, distortion_amount) * 32767
        held == IF y > 3276700 THEN 3276700 ELSE IF y < -3276800 THEN -3276800 ELSE y
    IN  py_trunc(held * vol, 10000)

\* C17: every sample of the stereo buffer, as generated and as played after
\* the envelope, lies in [-32768, 32767] and is the scaled value itself, not
\* a 16-bit wrap of it, for gains, distortion and envelope in [0, 1].
C17_SamplesInRange ==
    (fn.op = "tone" /\ fn.done)
        => LET l == scaled(fn.x, fn.distortion, fn.left_vol)
               r == scaled(fn.x, fn.distortion, fn.right_vol)
           IN  /\ fn.stereo = <<l, r>>
               /\ fn.out = <<py_trunc(l * fn.envelope, 100), py_trunc(r * fn.envelope, 100)>>
               /\ \A ch \in 1 .. 2 : fn.stereo[ch] \in Int16 /\ fn.out[ch] \in Int16

\* a sample past full scale with distortion 1 and gains 1, quantised to the
\* top of the range
C17_Witness ==
    /\ fn.op = "tone"
    /\ fn.done
    /\ fn.x = 120
    /\ fn.distortion = 100
    /\ fn.left_vol = 100
    /\ fn.envelope = 100
    /\ fn.out[1] >= 32766

\* C18: the envelope applied to a buffer of N samples has exactly N values,
\* whatever the attack, decay and release times in [0, 0.9] (all 0.9
\* included) and the sustain level in [0, 1].
C18_EnvelopeLength ==
    (fn.op = "apply_adsr" /\ fn.done)
        => /\ fn.envelope_len = fn.total_samples
           /\ fn.exc = ""

\* attack, decay and release all 0.9 s on the 0.5 s buffer of a tone: 119070
\* envelope values cut down to the 22050 of the buffer
C18_Witness ==
    /\ fn.op = "apply_adsr"
    /\ fn.done
    /\ fn.attack = 90 /\ fn.decay = 90 /\ fn.release = 90
    /\ fn.total_samples = 22050
    /\ fn.envelope_len = 22050

----------------------------------------------------------------------------
(* Claims about the threads and the mute controls *)

\* thread w finds self.running set and begins a tick
begins_tick(w) ==
    workers[w].pc = "check" /\ workers'[w].pc \in {"voice", "inc"}

\* C19: at most one timing thread is ticking at any time, whatever the
\* interleaving of start and stop with the threads' tick and sleep: a thread
\* begins a tick only while no thread started after it is alive, so no two
\* threads both advance a step counter and trigger voices.
C19_OneWorkerTicks ==
    [][\A w \in WorkerIds :
        begins_tick(w) => \A u \in WorkerIds : u > w => ~alive(u)]_vars

\* the rows with the Mute button of row i cleared, and with the Mute buttons
\* of all rows but row i cleared
own_mute_cleared(i) == [sequence EXCEPT ![i + 1] = @ \ {0}]
other_mutes_cleared(i) ==
    [u \in 1 .. Len(sequence) |-> IF u = i + 1 THEN sequence[u] ELSE sequence[u] \ {0}]

\* C20: mute is per voice: a voice is triggered on a tick exactly when it
\* would be had the mute controls of the other voices not been touched, and
\* its own mute control is not read as one of its step cells: a trigger made
\* with the voice's mute control set is also made with it cleared.
C20_MutePerVoice ==
    [][\A w \in WorkerIds :
        LET v == workers[w].i
            idx == step_index_of(workers[w].global_step, loop_length(v))
        IN  (voice_step(w) /\ loop_length(v) > 0)
            => /\ triggered(w) <=> cell_set_in(other_mutes_cleared(v), v, idx)
               /\ triggered(w) => cell_set_in(own_mute_cleared(v), v, idx)]_vars

----------------------------------------------------------------------------
(* Claim about the voice list, in main.py *)

\* C21: the voice list the clock iterates has exactly NUM_VOICES entries, one
\* per row of the grid: every voice index the clock visits on a tick is below
\* NUM_VOICES and has a row, and the tick does not fail on the subscript of
\* the grid.
C21_VoiceListMatchesGrid ==
    [][\A w \in WorkerIds :
        /\ workers'[w].pc = "voice"
            => /\ workers'[w].i < NUM_VOICES
               /\ workers'[w].i < Len(sequence)
        /\ workers'[w].exc # "IndexError"]_vars

====
